---- MODULE Spec2Model ----
(***************************************************************************)
(* Model of src/utils/apicParser.ts: the endpoint extractor                *)
(* (parseEndpointOutput), the attachment extractor (parseMoqueryOutput),   *)
(* the reconciler (validateVlanAllowances), the report generator           *)
(* (generateCSV) and the shared normalizePathName.                         *)
(*                                                                         *)
(* A JavaScript string is a sequence of one-character strings, so that the *)
(* regular expressions, trim, split, replace and toLowerCase of the source *)
(* are computed character by character.                                    *)
(***************************************************************************)
EXTENDS Integers, Sequences, FiniteSets, TLC

VARIABLES
    pc,               \* which call of the pipeline has returned
    p,                \* argument of normalizePathName
    np,               \* normalizePathName(p)
    nnp,              \* normalizePathName(np)
    input,            \* text given to parseEndpointOutput
    endpointData,     \* EndpointData | null
    moInput,          \* text given to parseMoqueryOutput
    pathAttachments,  \* PathAttachment[]
    results,          \* ValidationResult[]
    vlanArg,          \* generateCSV's vlan
    epgArg,           \* generateCSV's epg
    rows,             \* generateCSV's local rows
    csv               \* generateCSV's return value

vars == <<pc, p, np, nnp, input, endpointData, moInput, pathAttachments,
          results, vlanArg, epgArg, rows, csv>>

(***************************************************************************)
(* Characters and the character classes the regular expressions use.       *)
(***************************************************************************)
\* The upper-case letters and their lower case, and the reverse.
UpperToLower ==
    [A |-> "a", B |-> "b", C |-> "c", D |-> "d", E |-> "e", F |-> "f", G |-> "g",
     H |-> "h", I |-> "i", J |-> "j", K |-> "k", L |-> "l", M |-> "m", N |-> "n",
     O |-> "o", P |-> "p", Q |-> "q", R |-> "r", S |-> "s", T |-> "t", U |-> "u",
     V |-> "v", W |-> "w", X |-> "x", Y |-> "y", Z |-> "z"]

LowerToUpper ==
    [a |-> "A", b |-> "B", c |-> "C", d |-> "D", e |-> "E", f |-> "F", g |-> "G",
     h |-> "H", i |-> "I", j |-> "J", k |-> "K", l |-> "L", m |-> "M", n |-> "N",
     o |-> "O", p |-> "P", q |-> "Q", r |-> "R", s |-> "S", t |-> "T", u |-> "U",
     v |-> "V", w |-> "W", x |-> "X", y |-> "Y", z |-> "Z"]

\* String.prototype.toLowerCase on one character.
lowerChar(c) == IF c \in DOMAIN UpperToLower THEN UpperToLower[c] ELSE c

\* \d
IsDigit(c) == c \in {"0", "1", "2", "3", "4", "5", "6", "7", "8", "9"}

\* [\d-]
IsDigitDash(c) == IsDigit(c) \/ c = "-"

\* \s, and the characters trim() removes
IsSpace(c) == c \in {" ", "\t", "\n", "\r"}

\* \w, the class \b is defined by
IsWord(c) ==
    \/ IsDigit(c)
    \/ c = "_"
    \/ c \in DOMAIN UpperToLower
    \/ c \in DOMAIN LowerToUpper

\* [\[\]]
IsBracket(c) == c \in {"[", "]"}

\* [^\/]
NotSlash(c) == c # "/"

\* [^\]]
NotCloseBracket(c) == c # "]"

(***************************************************************************)
(* String primitives.                                                      *)
(***************************************************************************)
\* String.prototype.toLowerCase
toLowerCase(s) == [i \in 1..Len(s) |-> lowerChar(s[i])]

\* String.prototype.trim: drop the leading and the trailing whitespace.
trim(s) ==
    IF \A i \in 1..Len(s) : IsSpace(s[i])
    THEN <<>>
    ELSE LET first == CHOOSE i \in 1..Len(s) :
                          ~IsSpace(s[i]) /\ \A k \in 1..(i - 1) : IsSpace(s[k])
             last  == CHOOSE i \in 1..Len(s) :
                          ~IsSpace(s[i]) /\ \A k \in (i + 1)..Len(s) : IsSpace(s[k])
         IN  SubSeq(s, first, last)

\* s.replace(/[\[\]]/g, ''): every bracket removed.
stripBrackets(s) == SelectSeq(s, LAMBDA c : ~IsBracket(c))

\* function normalizePathName: trim, then strip brackets, then lowercase.
normalizePathName(path) == toLowerCase(stripBrackets(trim(path)))

\* '\n', the separator of split and join.
NL == <<"\n">>

\* String.prototype.split('\n')
RECURSIVE split(_)
split(s) ==
    IF \A i \in 1..Len(s) : s[i] # "\n"
    THEN <<s>>
    ELSE LET i == CHOOSE k \in 1..Len(s) :
                      s[k] = "\n" /\ \A m \in 1..(k - 1) : s[m] # "\n"
         IN  <<SubSeq(s, 1, i - 1)>> \o split(SubSeq(s, i + 1, Len(s)))

\* Array.prototype.join('\n')
RECURSIVE join(_)
join(a) ==
    IF Len(a) = 0 THEN <<>>
    ELSE IF Len(a) = 1 THEN a[1]
    ELSE a[1] \o NL \o join(Tail(a))

(***************************************************************************)
(* Regular-expression building blocks.  String.prototype.match without the *)
(* g flag returns the leftmost match; a match is modelled by the sequence  *)
(* of its capture groups (m[1], m[2], ...) and null by the empty sequence. *)
(***************************************************************************)
\* A literal at position i, case-sensitive.
LitAt(s, i, lit) ==
    /\ i >= 1
    /\ i + Len(lit) - 1 <= Len(s)
    /\ \A k \in 1..Len(lit) : s[i + k - 1] = lit[k]

\* A literal at position i under the i flag (lit is given in lower case).
LitAtI(s, i, lit) ==
    /\ i >= 1
    /\ i + Len(lit) - 1 <= Len(s)
    /\ \A k \in 1..Len(lit) : lowerChar(s[i + k - 1]) = lit[k]

\* Membership in a character class, by the class's name.
InClass(class, c) ==
    CASE class = "digit" -> IsDigit(c)
      [] class = "digitDash" -> IsDigitDash(c)
      [] class = "space" -> IsSpace(c)
      [] class = "notSlash" -> NotSlash(c)
      [] class = "notCloseBracket" -> NotCloseBracket(c)

\* The last index of the longest run of characters of a class that starts at
\* i (i - 1 when the run is empty): what a greedy C* consumes.
RunEnd(s, i, class) ==
    CHOOSE j \in (i - 1)..Len(s) :
        /\ (j = Len(s) \/ ~InClass(class, s[j + 1]))
        /\ \A k \in i..j : InClass(class, s[k])

\* The least element of a non-empty set of positions: the leftmost match.
Leftmost(S) == CHOOSE i \in S : \A k \in S : i <= k

\* \b at the boundary before position i.
WordBoundary(s, i) ==
    LET before == i - 1 >= 1 /\ i - 1 <= Len(s) /\ IsWord(s[i - 1])
        after  == i >= 1 /\ i <= Len(s) /\ IsWord(s[i])
    IN  before # after

\* A run s[g..r] has the shape [\d-]+- with the final '-' given back to the
\* literal that follows it.
EndsOneGroup(s, g, r) == r >= g + 1 /\ s[r] = "-"

\* A run s[g..r] has the shape [\d-]+-[\d-]+- (final '-' given back).
EndsTwoGroups(s, g, r) ==
    /\ r >= g + 3
    /\ s[r] = "-"
    /\ \E j \in (g + 1)..(r - 2) : s[j] = "-"

(***************************************************************************)
(* parseEndpointOutput                                                     *)
(***************************************************************************)
\* /vlan-(\d+)/i matches at position i.
vlanReAt(line, i) ==
    /\ LitAtI(line, i, <<"v", "l", "a", "n", "-">>)
    /\ i + 5 <= Len(line)
    /\ IsDigit(line[i + 5])

\* line.match(/vlan-(\d+)/i)
vlanRe(line) ==
    LET S == {i \in 1..Len(line) : vlanReAt(line, i)}
    IN  IF S = {} THEN <<>>
        ELSE LET i == Leftmost(S)
             IN  <<SubSeq(line, i + 5, RunEnd(line, i + 5, "digit"))>>

\* The end of the match of /vpc\s+([\d-]+-VPC-[\d-]+-PG)/i that starts at i, or
\* 0.  Each greedy run stops at a character outside its class, so the only
\* backtracking that can succeed gives the run's last '-' to the literal.
vpcRe1End(line, i) ==
    IF ~LitAtI(line, i, <<"v", "p", "c">>) THEN 0
    ELSE LET g  == RunEnd(line, i + 3, "space") + 1
             r1 == RunEnd(line, g, "digitDash")
             h  == r1 + 5
             r2 == RunEnd(line, h, "digitDash")
         IN  IF /\ g > i + 3
                /\ EndsOneGroup(line, g, r1)
                /\ LitAtI(line, r1, <<"-", "v", "p", "c", "-">>)
                /\ EndsOneGroup(line, h, r2)
                /\ LitAtI(line, r2, <<"-", "p", "g">>)
             THEN r2 + 2
             ELSE 0

\* line.match(/vpc\s+([\d-]+-VPC-[\d-]+-PG)/i)
vpcRe1(line) ==
    LET S == {i \in 1..Len(line) : vpcRe1End(line, i) # 0}
    IN  IF S = {} THEN <<>>
        ELSE LET i == Leftmost(S)
                 g == RunEnd(line, i + 3, "space") + 1
             IN  <<SubSeq(line, g, vpcRe1End(line, i))>>

\* The end of the match of /\b([\d-]+-[\d-]+-VPC-[\d-]+-[\d-]+-PG)\b/i that
\* starts at g, or 0.
vpcRe2End(line, g) ==
    IF ~(g <= Len(line) /\ IsDigitDash(line[g]) /\ WordBoundary(line, g)) THEN 0
    ELSE LET r1 == RunEnd(line, g, "digitDash")
             h  == r1 + 5
             r2 == RunEnd(line, h, "digitDash")
         IN  IF /\ EndsTwoGroups(line, g, r1)
                /\ LitAtI(line, r1, <<"-", "v", "p", "c", "-">>)
                /\ EndsTwoGroups(line, h, r2)
                /\ LitAtI(line, r2, <<"-", "p", "g">>)
                /\ WordBoundary(line, r2 + 3)
             THEN r2 + 2
             ELSE 0

\* line.match(/\b([\d-]+-[\d-]+-VPC-[\d-]+-[\d-]+-PG)\b/i)
vpcRe2(line) ==
    LET S == {g \in 1..Len(line) : vpcRe2End(line, g) # 0}
    IN  IF S = {} THEN <<>>
        ELSE LET g == Leftmost(S)
             IN  <<SubSeq(line, g, vpcRe2End(line, g))>>

\* Set.prototype.add on a Set kept in insertion order.
setAdd(set, x) ==
    IF \E k \in 1..Len(set) : set[k] = x THEN set ELSE Append(set, x)

\* lineVlan with the first match kept instead of the last.
lineVlan_firstWins(vlan, line) ==
    LET vlanMatch == vlanRe(line)
    IN  IF vlanMatch # <<>> /\ vlan = <<>> THEN vlanMatch[1] ELSE vlan

\* The vlan after one line of the loop: a match overwrites it.
lineVlan(vlan, line) ==
    LET vlanMatch == vlanRe(line)
    IN  IF vlanMatch # <<>> THEN vlanMatch[1] ELSE vlan

\* linePaths with format 2 tried on every line, also after format 1 matched.
linePaths_bothFormats(pathSet, line) ==
    LET vpcMatch  == vpcRe1(line)
        vpcMatch2 == vpcRe2(line)
        after1    == IF vpcMatch # <<>> THEN setAdd(pathSet, vpcMatch[1]) ELSE pathSet
    IN  IF vpcMatch2 # <<>> THEN setAdd(after1, vpcMatch2[1]) ELSE after1

\* The pathSet after one line of the loop: format 1, and format 2 only when
\* format 1 did not match.
linePaths(pathSet, line) ==
    LET vpcMatch == vpcRe1(line)
    IN  IF vpcMatch # <<>> THEN setAdd(pathSet, vpcMatch[1])
        ELSE LET vpcMatch2 == vpcRe2(line)
             IN  IF vpcMatch2 # <<>> THEN setAdd(pathSet, vpcMatch2[1])
                 ELSE pathSet

\* for (const line of lines) { ... }, from line k on.
RECURSIVE endpointLoop(_, _, _, _)
endpointLoop(lines, k, vlan, pathSet) ==
    IF k > Len(lines) THEN [vlan |-> vlan, pathSet |-> pathSet]
    ELSE endpointLoop(lines, k + 1, lineVlan(vlan, lines[k]),
                      linePaths(pathSet, lines[k]))

\* The null that parseEndpointOutput returns.
null == [isNull |-> TRUE]

\* endpointResult with || in place of &&.
endpointResult_either(vlan, pathSet) ==
    IF vlan # <<>> \/ Len(pathSet) > 0
    THEN [vlan |-> vlan, ip |-> <<>>, paths |-> pathSet, pod |-> <<>>]
    ELSE null

\* if (vlan && pathSet.size > 0) return {...}; return null;
endpointResult(vlan, pathSet) ==
    IF vlan # <<>> /\ Len(pathSet) > 0
    THEN [vlan |-> vlan, ip |-> <<>>, paths |-> pathSet, pod |-> <<>>]
    ELSE null

\* export function parseEndpointOutput(input)
parseEndpointOutput(text) ==
    LET lines == split(trim(text))
        end   == endpointLoop(lines, 1, <<>>, <<>>)
    IN  endpointResult(end.vlan, end.pathSet)

(***************************************************************************)
(* parseMoqueryOutput                                                      *)
(***************************************************************************)
L_dn == <<"d", "n">>
L_uni == <<"u", "n", "i", "/", "t", "n", "-">>
L_ap == <<"/", "a", "p", "-">>
L_epg == <<"/", "e", "p", "g", "-">>
L_rspathAtt ==
    <<"/", "r", "s", "p", "a", "t", "h", "a", "t", "t", "-", "[",
      "t", "o", "p", "o", "l", "o", "g", "y", "/">>
L_pod == <<"p", "o", "d", "-">>
L_protpaths == <<"/", "p", "r", "o", "t", "p", "a", "t", "h", "s", "-">>
L_paths == <<"/", "p", "a", "t", "h", "s", "-">>
L_pathep == <<"/", "p", "a", "t", "h", "e", "p", "-", "[">>

\* A pattern is a sequence of items: a literal under the i flag, or a greedy
\* run of a character class of at least min characters.
Lit(v) == [t |-> "lit", v |-> v]
Run(class, min) == [t |-> "run", class |-> class, min |-> min]

\* The position after one item matched at position i, as a set: empty when the
\* item does not match there.
Step(s, item, i) ==
    IF item.t = "lit"
    THEN IF LitAtI(s, i, item.v) THEN {i + Len(item.v)} ELSE {}
    ELSE {n \in {RunEnd(s, i, item.class) + 1} : n >= i + item.min}

\* The matches of items k.. at position i: each is the sequence of the
\* positions where item k, k + 1, ... start, and the position after the last.
RECURSIVE MatchFrom(_, _, _, _)
MatchFrom(s, items, k, i) ==
    IF k > Len(items) THEN {<<i>>}
    ELSE UNION {{<<i>> \o rest : rest \in MatchFrom(s, items, k + 1, n)} :
                   n \in Step(s, items[k], i)}

\* The two dn patterns; nodeLit and nodeClass are '/protpaths-' with [\d-] or
\* '/paths-' with [\d], the rest is the same.  Every greedy run is followed by
\* a literal that starts with a character outside the run's class, so a run
\* always ends where its class ends and no backtracking can succeed.
dnPattern(nodeLit, nodeClass) ==
    << Lit(L_dn), Run("space", 0), Lit(<<":">>), Run("space", 0),
       Lit(L_uni), Run("notSlash", 1),
       Lit(L_ap), Run("notSlash", 1),
       Lit(L_epg), Run("notSlash", 1),
       Lit(L_rspathAtt),
       Lit(L_pod), Run("digit", 1),
       Lit(nodeLit), Run(nodeClass, 1),
       Lit(L_pathep), Run("notCloseBracket", 1),
       Lit(<<"]", "]">>) >>

\* The groups <<epg, pod, pathName>> of the dn pattern matched at position i,
\* or <<>>: items 10, 12-13 and 17 of the pattern.
dnReAt(line, i, nodeLit, nodeClass) ==
    LET M == MatchFrom(line, dnPattern(nodeLit, nodeClass), 1, i)
    IN  IF M = {} THEN <<>>
        ELSE LET P == CHOOSE x \in M : TRUE
             IN  <<SubSeq(line, P[10], P[11] - 1),
                   SubSeq(line, P[12], P[14] - 1),
                   SubSeq(line, P[17], P[18] - 1)>>

\* line.match(/dn\s*:\s*uni\/tn-[^\/]+\/ap-[^\/]+\/epg-([^\/]+)\/rspathAtt-
\*   \[topology\/(pod-\d+)\/protpaths-[\d-]+\/pathep-\[([^\]]+)\]\]/i)
protpathsRe(line) ==
    LET S == {i \in 1..Len(line) : dnReAt(line, i, L_protpaths, "digitDash") # <<>>}
    IN  IF S = {} THEN <<>> ELSE dnReAt(line, Leftmost(S), L_protpaths, "digitDash")

\* line.match(/dn\s*:\s*uni\/tn-[^\/]+\/ap-[^\/]+\/epg-([^\/]+)\/rspathAtt-
\*   \[topology\/(pod-\d+)\/paths-[\d]+\/pathep-\[([^\]]+)\]\]/i)
pathsRe(line) ==
    LET S == {i \in 1..Len(line) : dnReAt(line, i, L_paths, "digit") # <<>>}
    IN  IF S = {} THEN <<>> ELSE dnReAt(line, Leftmost(S), L_paths, "digit")

\* export function extractVlanFromEpg, and the same two lines inside
\* parseMoqueryOutput: epg.match(/VLAN(\d+)/i), group 1 or ''.
extractVlanFromEpg(epgName) ==
    LET at(i) == /\ LitAtI(epgName, i, <<"v", "l", "a", "n">>)
                 /\ i + 4 <= Len(epgName)
                 /\ IsDigit(epgName[i + 4])
        S == {i \in 1..Len(epgName) : at(i)}
    IN  IF S = {} THEN <<>>
        ELSE LET i == Leftmost(S)
             IN  SubSeq(epgName, i + 4, RunEnd(epgName, i + 4, "digit"))

\* pathName.match(/(\d+)-(\d+)-VPC/): <<node1, node2>> or <<>>.  The pattern
\* has no i flag and no anchor.
vpcNodesRe(pathName) ==
    LET end1(i) == RunEnd(pathName, i, "digit")
        end2(i) == RunEnd(pathName, end1(i) + 2, "digit")
        at(i) == /\ end1(i) >= i
                 /\ LitAt(pathName, end1(i) + 1, <<"-">>)
                 /\ end2(i) >= end1(i) + 2
                 /\ LitAt(pathName, end2(i) + 1, <<"-", "V", "P", "C">>)
        S == {i \in 1..Len(pathName) : at(i)}
    IN  IF S = {} THEN <<>>
        ELSE LET i == Leftmost(S)
             IN  <<SubSeq(pathName, i, end1(i)),
                   SubSeq(pathName, end1(i) + 2, end2(i))>>

\* pathName.match(/^(\d+)[-\/]/): <<node>> or <<>>.
singleNodeRe(pathName) ==
    LET e == RunEnd(pathName, 1, "digit")
    IN  IF e >= 1 /\ e + 1 <= Len(pathName) /\ pathName[e + 1] \in {"-", "/"}
        THEN <<SubSeq(pathName, 1, e)>>
        ELSE <<>>

\* `${pod}/protpaths-${node1}-${node2}/pathep-[${pathName}]`
protpathsFullPath(pod, node1, node2, pathName) ==
    pod \o L_protpaths \o node1 \o <<"-">> \o node2 \o L_pathep \o pathName \o <<"]">>

\* `${pod}/paths-${node}/pathep-[${pathName}]`
pathsFullPath(pod, node, pathName) ==
    pod \o L_paths \o node \o L_pathep \o pathName \o <<"]">>

\* parseMoqueryOutput's fullPath: the dn pattern that matched picks the branch.
moqueryFullPath(isVpc, pod, pathName) ==
    IF isVpc
    THEN LET vpcMatch == vpcNodesRe(pathName)
         IN  IF vpcMatch # <<>>
             THEN protpathsFullPath(pod, vpcMatch[1], vpcMatch[2], pathName)
             ELSE <<>>
    ELSE LET singleMatch == singleNodeRe(pathName)
         IN  IF singleMatch # <<>>
             THEN pathsFullPath(pod, singleMatch[1], pathName)
             ELSE <<>>

\* The attachments after one line of the loop.
moqueryLine(attachments, line) ==
    IF trim(line) = <<>> THEN attachments
    ELSE LET first   == protpathsRe(line)
             isVpc   == first # <<>>
             dnMatch == IF isVpc THEN first ELSE pathsRe(line)
         IN  IF dnMatch = <<>> THEN attachments
             ELSE LET epg      == dnMatch[1]
                      pod      == dnMatch[2]
                      pathName == dnMatch[3]
                      vlan     == extractVlanFromEpg(epg)
                      fullPath == moqueryFullPath(isVpc, pod, pathName)
                  IN  IF vlan # <<>> /\ pathName # <<>>
                      THEN Append(attachments,
                                  [vlan |-> vlan, epg |-> epg, path |-> pathName,
                                   fullPath |-> fullPath, pod |-> pod])
                      ELSE attachments

RECURSIVE moqueryLoop(_, _, _)
moqueryLoop(lines, k, attachments) ==
    IF k > Len(lines) THEN attachments
    ELSE moqueryLoop(lines, k + 1, moqueryLine(attachments, lines[k]))

\* export function parseMoqueryOutput(input)
parseMoqueryOutput(text) == moqueryLoop(split(trim(text)), 1, <<>>)

(***************************************************************************)
(* validateVlanAllowances                                                  *)
(***************************************************************************)
\* filteredAttachments without the vlan filter.
filteredAttachments_anyVlan(e, attachments) == attachments

\* pathAttachments.filter(att => att.vlan === endpointData.vlan)
filteredAttachments(e, attachments) ==
    SelectSeq(attachments, LAMBDA att : att.vlan = e.vlan)

\* new Set(filteredAttachments.map(att => normalizePathName(att.path)))
allowedPaths(e, attachments) ==
    LET f == filteredAttachments(e, attachments)
    IN  {normalizePathName(f[k].path) : k \in 1..Len(f)}

\* export function validateVlanAllowances(endpointData, pathAttachments)
validateVlanAllowances(e, attachments) ==
    LET allowed == allowedPaths(e, attachments)
    IN  [k \in 1..Len(e.paths) |->
            LET isAllowed == normalizePathName(e.paths[k]) \in allowed
            IN  [path |-> e.paths[k], hasActiveEndpoint |-> TRUE,
                 isVlanAllowed |-> isAllowed,
                 status |-> IF isAllowed THEN "allowed" ELSE "not_allowed"]]

(***************************************************************************)
(* generateCSV                                                             *)
(***************************************************************************)
header == <<"V", "L", "A", "N", ",", "E", "P", "G", ",", "P", "A", "T", "H">>

\* let pod = 'pod-2'
fallbackPod == <<"p", "o", "d", "-", "2">>

\* csvPod without the break: the last matching attachment gives the pod.
csvPod_lastMatch(pathName, attachments) ==
    LET normalizedPathName == normalizePathName(pathName)
        S == {k \in 1..Len(attachments) :
                 normalizePathName(attachments[k].path) = normalizedPathName}
    IN  IF S = {} THEN fallbackPod
        ELSE attachments[CHOOSE k \in S : \A m \in S : m <= k].pod

\* The pod loop: the first attachment whose normalized path equals the
\* normalized pathName gives the pod; none leaves the fallback.
csvPod(pathName, attachments) ==
    LET normalizedPathName == normalizePathName(pathName)
        S == {k \in 1..Len(attachments) :
                 normalizePathName(attachments[k].path) = normalizedPathName}
    IN  IF S = {} THEN fallbackPod ELSE attachments[Leftmost(S)].pod

\* generateCSV's fullPath: the shape of pathName picks the branch.
csvFullPath(pod, pathName) ==
    LET vpcMatch == vpcNodesRe(pathName)
    IN  IF vpcMatch # <<>>
        THEN protpathsFullPath(pod, vpcMatch[1], vpcMatch[2], pathName)
        ELSE LET singleMatch == singleNodeRe(pathName)
             IN  IF singleMatch # <<>>
                 THEN pathsFullPath(pod, singleMatch[1], pathName)
                 ELSE pod \o <<"/", "p", "a", "t", "h", "s", "-", "X", "X", "X">>
                          \o L_pathep \o pathName \o <<"]">>

\* results.filter(r => r.status === 'not_allowed').map(r => r.path)
notAllowedPaths(res) ==
    LET f == SelectSeq(res, LAMBDA r : r.status = "not_allowed")
    IN  [k \in 1..Len(f) |-> f[k].path]

\* `${vlan},${epg},${fullPath}`
csvRow(vlan, epg, pathName, attachments) ==
    vlan \o <<",">> \o epg \o <<",">>
         \o csvFullPath(csvPod(pathName, attachments), pathName)

\* const rows = notAllowedPaths.map(pathName => ...)
csvRows(vlan, epg, res, attachments) ==
    LET na == notAllowedPaths(res)
    IN  [k \in 1..Len(na) |-> csvRow(vlan, epg, na[k], attachments)]

\* return header + '\n' + rows.join('\n')
csvText(rs) == header \o NL \o join(rs)


(***************************************************************************)
(* Inputs.                                                                 *)
(***************************************************************************)
\* All strings over an alphabet, up to a length.
StringsUpTo(A, n) == UNION {[1..k -> A] : k \in 0..n}

\* Longest argument of normalizePathName that is enumerated.
MaxNormLen == 3

\* Letters of both cases, a digit, the space and the two brackets.
NormAlphabet == {"a", "B", "1", " ", "[", "]"}

\* Most lines of an endpoint text.
MaxLines == 2

\* Pieces of an endpoint line: two vlan tokens, a 'vpc'-prefixed path token in
\* two letter cases, a bare path token and a word that ends without a space.
EndpointFragments ==
    { <<"v", "l", "a", "n", "-", "1", "0", " ">>,
      <<"V", "L", "A", "N", "-", "7", " ">>,
      <<"v", "p", "c", " ", "1", "-", "V", "P", "C", "-", "2", "-", "P", "G", " ">>,
      <<"v", "p", "c", " ", "1", "-", "v", "p", "c", "-", "2", "-", "p", "g", " ">>,
      <<"3", "-", "4", "-", "V", "P", "C", "-", "5", "-", "6", "-", "P", "G", " ">>,
      <<"p", "o">> }

\* An endpoint line: at most two pieces, one after the other.
EndpointLines ==
    {f \o g : f \in EndpointFragments \cup {<<>>},
              g \in EndpointFragments \cup {<<>>}}

\* An endpoint text: one to MaxLines lines joined by newlines.
EndpointTexts ==
    {join(t) : t \in UNION {[1..k -> EndpointLines] : k \in 1..MaxLines}}

(***************************************************************************)
(* Specification of normalizePathName alone.                               *)
(***************************************************************************)
InitNormalize ==
    /\ pc = "start"
    /\ p \in StringsUpTo(NormAlphabet, MaxNormLen)
    /\ np = <<>>
    /\ nnp = <<>>
    /\ input = <<>>
    /\ endpointData = null
    /\ moInput = <<>>
    /\ pathAttachments = <<>>
    /\ results = <<>>
    /\ vlanArg = <<>>
    /\ epgArg = <<>>
    /\ rows = <<>>
    /\ csv = <<>>

\* np = normalizePathName(p)
Normalize ==
    /\ pc = "start"
    /\ np' = normalizePathName(p)
    /\ pc' = "normalized"
    /\ UNCHANGED <<p, nnp, input, endpointData, moInput, pathAttachments,
                   results, vlanArg, epgArg, rows, csv>>

\* nnp = normalizePathName(np)
NormalizeAgain ==
    /\ pc = "normalized"
    /\ nnp' = normalizePathName(np)
    /\ pc' = "renormalized"
    /\ UNCHANGED <<p, np, input, endpointData, moInput, pathAttachments,
                   results, vlanArg, epgArg, rows, csv>>

NextNormalize == Normalize \/ NormalizeAgain

SpecNormalize == InitNormalize /\ [][NextNormalize]_vars

(***************************************************************************)
(* Specification of parseEndpointOutput alone.                             *)
(***************************************************************************)
InitEndpoint ==
    /\ pc = "start"
    /\ input \in EndpointTexts
    /\ p = <<>>
    /\ np = <<>>
    /\ nnp = <<>>
    /\ endpointData = null
    /\ moInput = <<>>
    /\ pathAttachments = <<>>
    /\ results = <<>>
    /\ vlanArg = <<>>
    /\ epgArg = <<>>
    /\ rows = <<>>
    /\ csv = <<>>

\* endpointData = parseEndpointOutput(input)
ParseEndpointOutput ==
    /\ pc = "start"
    /\ endpointData' = parseEndpointOutput(input)
    /\ pc' = "parsed"
    /\ UNCHANGED <<p, np, nnp, input, moInput, pathAttachments, results,
                   vlanArg, epgArg, rows, csv>>

NextEndpoint == ParseEndpointOutput

SpecEndpoint == InitEndpoint /\ [][NextEndpoint]_vars

(***************************************************************************)
(* Inputs of the attachment extractor, the reconciler and the report.      *)
(***************************************************************************)
P_vpc == <<"1", "-", "2", "-", "V", "P", "C", "-", "3", "-", "4", "-", "P", "G">>
P_vpcLower == <<"1", "-", "2", "-", "v", "p", "c", "-", "3", "-", "4", "-", "p", "g">>
P_vpcBracket ==
    <<"[", "1", "-", "2", "-", "v", "p", "c", "-", "3", "-", "4", "-", "p", "g", "]">>
P_single == <<"1", "/", "5">>
P_eth == <<"e", "t", "h", "1">>
V_10 == <<"1", "0">>
V_7 == <<"7">>
Pod_1 == <<"p", "o", "d", "-", "1">>
Pod_3 == <<"p", "o", "d", "-", "3">>
E_vlan10 == <<"V", "L", "A", "N", "1", "0", "_", "A", "P", "P">>
E_vlan7 == <<"V", "l", "a", "n", "7">>
E_web == <<"w", "e", "b">>

\* Most lines of a moquery text.
MaxMoLines == 2

\* A dn line for each epg, pod, node part and path name, and a blank line.
MoqueryLines ==
    { <<"d", "n", ":", " ", "u", "n", "i", "/", "t", "n", "-", "T", "/", "a", "p",
        "-", "A", "/", "e", "p", "g", "-">>
      \o epg
      \o <<"/", "r", "s", "p", "a", "t", "h", "A", "t", "t", "-", "[",
           "t", "o", "p", "o", "l", "o", "g", "y", "/">>
      \o pod \o node
      \o <<"/", "p", "a", "t", "h", "e", "p", "-", "[">> \o name \o <<"]", "]">> :
        epg \in {E_vlan10, E_vlan7, E_web},
        pod \in {Pod_1, Pod_3},
        node \in { <<"/", "p", "r", "o", "t", "p", "a", "t", "h", "s", "-", "1", "-", "2">>,
                   <<"/", "p", "a", "t", "h", "s", "-", "1">> },
        name \in {P_vpc, P_vpcLower, P_single, P_eth} }
    \cup { <<" ">> }

MoqueryTexts ==
    {join(t) : t \in UNION {[1..k -> MoqueryLines] : k \in 1..MaxMoLines}}

\* An EndpointData as parseEndpointOutput builds it.
EndpointDataOf(vlan, paths) ==
    [vlan |-> vlan, ip |-> <<>>, paths |-> paths, pod |-> <<>>]

\* The endpoint records the moquery texts are reconciled with.
MoEndpointDatas == {EndpointDataOf(v, <<P_vpc, P_single>>) : v \in {V_10, V_7}}

\* Most attachments, and most paths or results, of a directly given argument.
MaxAttachments == 2
MaxPaths == 2

DirectPaths == {P_vpc, P_vpcBracket, P_single}

AttachmentOf(vlan, path, pod) ==
    [vlan |-> vlan, epg |-> <<"e">>, path |-> path, fullPath |-> <<>>, pod |-> pod]

\* Attachments of both vlans for every path; paths that normalize to the same
\* name carry different pods.
DirectAttachments ==
    { AttachmentOf(V_10, P_vpc, Pod_1), AttachmentOf(V_7, P_vpc, Pod_3),
      AttachmentOf(V_7, P_vpcBracket, Pod_1), AttachmentOf(V_10, P_vpcBracket, Pod_3),
      AttachmentOf(V_10, P_single, Pod_3), AttachmentOf(V_7, P_single, Pod_1) }

DirectAttachmentLists == UNION {[1..k -> DirectAttachments] : k \in 0..MaxAttachments}

DirectEndpointDatas ==
    {EndpointDataOf(v, ps) : v \in {V_10, V_7},
                             ps \in UNION {[1..k -> DirectPaths] : k \in 0..MaxPaths}}

ResultOf(path, allowed) ==
    [path |-> path, hasActiveEndpoint |-> TRUE, isVlanAllowed |-> allowed,
     status |-> IF allowed THEN "allowed" ELSE "not_allowed"]

DirectResultLists ==
    UNION {[1..k -> {ResultOf(q, b) : q \in DirectPaths, b \in BOOLEAN}] : k \in 0..MaxPaths}

\* The vlan and epg arguments generateCSV is called with.
CsvArgs == {<<V_10, E_vlan10>>, <<V_7, E_web>>}

(***************************************************************************)
(* The calls that follow the two extractors.                               *)
(***************************************************************************)
\* pathAttachments = parseMoqueryOutput(moInput)
ParseMoqueryOutput ==
    /\ pc = "start"
    /\ pathAttachments' = parseMoqueryOutput(moInput)
    /\ pc' = "attachments"
    /\ UNCHANGED <<p, np, nnp, input, endpointData, moInput, results,
                   vlanArg, epgArg, rows, csv>>

\* results = validateVlanAllowances(endpointData, pathAttachments)
ValidateVlanAllowances ==
    /\ pc = "attachments"
    /\ endpointData # null
    /\ results' = validateVlanAllowances(endpointData, pathAttachments)
    /\ pc' = "validated"
    /\ UNCHANGED <<p, np, nnp, input, endpointData, moInput, pathAttachments,
                   vlanArg, epgArg, rows, csv>>

\* csv = generateCSV(vlan, epg, results, endpointData, pathAttachments), on the
\* results of validateVlanAllowances (pc = "validated") or on results the
\* caller made (pc = "results").
GenerateCSV ==
    /\ pc \in {"validated", "results"}
    /\ \E a \in CsvArgs :
          /\ vlanArg' = a[1]
          /\ epgArg' = a[2]
          /\ rows' = csvRows(a[1], a[2], results, pathAttachments)
          /\ csv' = csvText(rows')
    /\ pc' = IF pc = "validated" THEN "reported" ELSE "reportedResults"
    /\ UNCHANGED <<p, np, nnp, input, endpointData, moInput, pathAttachments,
                   results>>

(***************************************************************************)
(* Specification of parseMoqueryOutput and the calls after it.             *)
(***************************************************************************)
InitMoquery ==
    /\ pc = "start"
    /\ moInput \in MoqueryTexts
    /\ endpointData \in MoEndpointDatas
    /\ p = <<>>
    /\ np = <<>>
    /\ nnp = <<>>
    /\ input = <<>>
    /\ pathAttachments = <<>>
    /\ results = <<>>
    /\ vlanArg = <<>>
    /\ epgArg = <<>>
    /\ rows = <<>>
    /\ csv = <<>>

NextMoquery == ParseMoqueryOutput \/ ValidateVlanAllowances \/ GenerateCSV

SpecMoquery == InitMoquery /\ [][NextMoquery]_vars

(***************************************************************************)
(* Specification of validateVlanAllowances and generateCSV on arguments    *)
(* given directly.                                                         *)
(***************************************************************************)
InitReport ==
    /\ pathAttachments \in DirectAttachmentLists
    /\ \/ /\ pc = "attachments"
          /\ endpointData \in DirectEndpointDatas
          /\ results = <<>>
       \/ /\ pc = "results"
          /\ endpointData = EndpointDataOf(V_10, <<P_vpc>>)
          /\ results \in DirectResultLists
    /\ p = <<>>
    /\ np = <<>>
    /\ nnp = <<>>
    /\ input = <<>>
    /\ moInput = <<>>
    /\ vlanArg = <<>>
    /\ epgArg = <<>>
    /\ rows = <<>>
    /\ csv = <<>>

NextReport == ValidateVlanAllowances \/ GenerateCSV

SpecReport == InitReport /\ [][NextReport]_vars

(***************************************************************************)
(* Properties of normalizePathName (SpecNormalize).                        *)
(***************************************************************************)
\* The same string with one bracket added at any place.
BracketAdded(s) ==
    {SubSeq(s, 1, k) \o <<b>> \o SubSeq(s, k + 1, Len(s)) :
        k \in 0..Len(s), b \in {"[", "]"}}

\* The other letter case of a character.
otherCase(c) ==
    IF c \in DOMAIN UpperToLower THEN UpperToLower[c]
    ELSE IF c \in DOMAIN LowerToUpper THEN LowerToUpper[c]
    ELSE c

\* The same string with the letter case of one character changed.
CaseChanged(s) ==
    {[s EXCEPT ![k] = otherCase(s[k])] : k \in 1..Len(s)}

\* C5: normalizePathName is idempotent, normalize(normalize(p)) = normalize(p),
\* and a string normalizes to the same value as the same string with a bracket
\* added or the case of a letter changed.
C5_NormalizeIdempotentInvariant ==
    pc = "renormalized" =>
        /\ nnp = np
        /\ \A q \in BracketAdded(p) \cup CaseChanged(p) : normalizePathName(q) = np

(***************************************************************************)
(* Properties of parseEndpointOutput (SpecEndpoint).                       *)
(***************************************************************************)
\* The lines of the input text as given.
rawLines == split(input)

\* The line contains a vlan-<digits> token.
HasVlanToken(line) == \E i \in 1..Len(line) : vlanReAt(line, i)

\* The path tokens of a line: every match of either path format, at any place.
PathTokens1(line) ==
    {SubSeq(line, RunEnd(line, i + 3, "space") + 1, vpcRe1End(line, i)) :
        i \in {k \in 1..Len(line) : vpcRe1End(line, k) # 0}}

PathTokens2(line) ==
    {SubSeq(line, g, vpcRe2End(line, g)) :
        g \in {k \in 1..Len(line) : vpcRe2End(line, k) # 0}}

PathTokens(line) == PathTokens1(line) \cup PathTokens2(line)

\* The line contains a path token of either format.
HasPathToken(line) ==
    \E i \in 1..Len(line) : vpcRe1End(line, i) # 0 \/ vpcRe2End(line, i) # 0

SomeVlanLine == \E k \in 1..Len(rawLines) : HasVlanToken(rawLines[k])

SomePathLine == \E k \in 1..Len(rawLines) : HasPathToken(rawLines[k])

\* What the loop has collected before line k.
CollectedBefore(k) == endpointLoop(SubSeq(rawLines, 1, k - 1), 1, <<>>, <<>>)

\* C3: parseEndpointOutput returns null exactly when no line has a vlan token or
\* no line has a path token; otherwise a record with a non-empty vlan and a
\* non-empty paths list; a line that matches nothing changes neither the vlan
\* nor the path set collected so far.
C3_NullIffVlanOrPathMissing ==
    pc = "parsed" =>
        /\ (endpointData = null) <=> (~SomeVlanLine \/ ~SomePathLine)
        /\ endpointData # null =>
              /\ DOMAIN endpointData = {"vlan", "ip", "paths", "pod"}
              /\ Len(endpointData.vlan) > 0
              /\ Len(endpointData.paths) > 0
        /\ \A k \in 1..Len(rawLines) :
              (~HasVlanToken(rawLines[k]) /\ ~HasPathToken(rawLines[k])) =>
                  LET before == CollectedBefore(k)
                  IN  /\ lineVlan(before.vlan, rawLines[k]) = before.vlan
                      /\ linePaths(before.pathSet, rawLines[k]) = before.pathSet

\* C3 witness: a vlan is found, a line matches nothing, no path is found, and
\* the result is null.
C3_Witness ==
    /\ pc = "parsed"
    /\ endpointData = null
    /\ SomeVlanLine
    /\ ~SomePathLine
    /\ \E k \in 1..Len(rawLines) :
          Len(rawLines[k]) > 0 /\ ~HasVlanToken(rawLines[k])

\* The last line, in input order, that has a vlan token.
LastVlanLine ==
    CHOOSE k \in 1..Len(rawLines) :
        /\ HasVlanToken(rawLines[k])
        /\ \A m \in (k + 1)..Len(rawLines) : ~HasVlanToken(rawLines[m])

\* The digits of the first vlan token of a line.
VlanDigits(line) ==
    LET i == CHOOSE k \in 1..Len(line) :
                 vlanReAt(line, k) /\ \A m \in 1..(k - 1) : ~vlanReAt(line, m)
        e == CHOOSE k \in (i + 5)..Len(line) :
                 /\ \A m \in (i + 5)..k : IsDigit(line[m])
                 /\ (k = Len(line) \/ ~IsDigit(line[k + 1]))
    IN  SubSeq(line, i + 5, e)

\* C4: the returned vlan is the digits of the vlan token of the last line that
\* has one (the first token of that line), wherever the path lines are.
C4_LastVlanLineWins ==
    (pc = "parsed" /\ endpointData # null) =>
        endpointData.vlan = VlanDigits(rawLines[LastVlanLine])

\* C4 witness: two lines carry different vlans, the only path token is on the
\* first of them, and the result is not null.
C4_Witness ==
    /\ pc = "parsed"
    /\ endpointData # null
    /\ Len(rawLines) >= 2
    /\ HasVlanToken(rawLines[1])
    /\ HasPathToken(rawLines[1])
    /\ LastVlanLine > 1
    /\ \A k \in 2..Len(rawLines) : ~HasPathToken(rawLines[k])
    /\ VlanDigits(rawLines[1]) # VlanDigits(rawLines[LastVlanLine])

\* The members of a list.
Range(s) == {s[k] : k \in 1..Len(s)}

\* C6 as claimed: the returned paths contain every path token that matches a
\* path format anywhere in the text.
C6_EveryPathTokenReturned ==
    (pc = "parsed" /\ endpointData # null) =>
        \A k \in 1..Len(rawLines) : PathTokens(rawLines[k]) \subseteq Range(endpointData.paths)

\* The one token a line contributes: the leftmost match of the 'vpc'-prefixed
\* format, or, only when the line has no such match, the leftmost match of the
\* bare format.
LineToken(line) ==
    IF \E k \in 1..Len(line) : vpcRe1End(line, k) # 0
    THEN LET i == CHOOSE k \in 1..Len(line) :
                      vpcRe1End(line, k) # 0 /\ \A m \in 1..(k - 1) : vpcRe1End(line, m) = 0
         IN  SubSeq(line, RunEnd(line, i + 3, "space") + 1, vpcRe1End(line, i))
    ELSE LET g == CHOOSE k \in 1..Len(line) :
                      vpcRe2End(line, k) # 0 /\ \A m \in 1..(k - 1) : vpcRe2End(line, m) = 0
         IN  SubSeq(line, g, vpcRe2End(line, g))

\* C6 as amended: the returned paths are, without repetition, exactly the one
\* token of each line that has a path token (the leftmost 'vpc'-prefixed match,
\* else the leftmost bare match); further tokens of a line are not collected.
C6_OneTokenPerLine ==
    (pc = "parsed" /\ endpointData # null) =>
        /\ Range(endpointData.paths)
              = {LineToken(rawLines[k]) : k \in {m \in 1..Len(rawLines) : HasPathToken(rawLines[m])}}
        /\ \A i, j \in 1..Len(endpointData.paths) :
              i # j => endpointData.paths[i] # endpointData.paths[j]

\* C6 witness: one line carries a 'vpc'-prefixed token and a different bare
\* token, and the result lacks the bare one.
C6_Witness ==
    /\ pc = "parsed"
    /\ endpointData # null
    /\ \E k \in 1..Len(rawLines) :
          /\ PathTokens1(rawLines[k]) # {}
          /\ \E t \in PathTokens2(rawLines[k]) :
                t \notin PathTokens1(rawLines[k]) /\ t \notin Range(endpointData.paths)

\* C7: no two entries of the returned paths have the same normalized form.
C7_PathsDistinctWhenNormalized ==
    (pc = "parsed" /\ endpointData # null) =>
        \A i, j \in 1..Len(endpointData.paths) :
            i # j => normalizePathName(endpointData.paths[i])
                        # normalizePathName(endpointData.paths[j])

(***************************************************************************)
(* Properties of validateVlanAllowances and generateCSV (SpecReport).      *)
(***************************************************************************)
\* generateCSV has returned.
Reported == pc \in {"reported", "reportedResults"}

\* C1: when no result has status 'not_allowed' (the empty list included),
\* generateCSV returns exactly the header, with no character after it.
C1_HeaderAloneWhenNothingNotAllowed ==
    (Reported /\ \A k \in 1..Len(results) : results[k].status # "not_allowed") =>
        csv = header

\* Attachment a backs path q for the endpoint's vlan.
SameVlanMatch(a, q) ==
    a.vlan = endpointData.vlan /\ normalizePathName(a.path) = normalizePathName(q)

\* C2: validateVlanAllowances emits one result per path of the endpoint, in
\* order, and its status is 'allowed' exactly when some attachment has the
\* endpoint's vlan and the same normalized path; otherwise 'not_allowed'.
C2_AllowedIffSameVlanAttachment ==
    pc \in {"validated", "reported"} =>
        /\ Len(results) = Len(endpointData.paths)
        /\ \A k \in 1..Len(results) :
              /\ results[k].path = endpointData.paths[k]
              /\ results[k].status \in {"allowed", "not_allowed"}
              /\ results[k].status = "allowed"
                    <=> \E a \in Range(pathAttachments) :
                            SameVlanMatch(a, endpointData.paths[k])

\* C2 witness: one path is allowed by a same-vlan attachment under another
\* spelling, and another path matched only by a different-vlan attachment is
\* not allowed.
C2_Witness ==
    /\ pc = "validated"
    /\ \E k \in 1..Len(results) :
          /\ results[k].status = "allowed"
          /\ \A a \in Range(pathAttachments) : a.path # results[k].path
    /\ \E k \in 1..Len(results) :
          /\ results[k].status = "not_allowed"
          /\ \E a \in Range(pathAttachments) :
                /\ a.vlan # endpointData.vlan
                /\ normalizePathName(a.path) = normalizePathName(results[k].path)

\* The paths of the not-allowed results, in result order.
NotAllowed ==
    LET na == SelectSeq(results, LAMBDA r : r.status = "not_allowed")
    IN  [n \in 1..Len(na) |-> na[n].path]

\* Attachment j is the first in list order whose normalized path is q's.
FirstMatch(j, q) ==
    LET nq == normalizePathName(q)
    IN  /\ normalizePathName(pathAttachments[j].path) = nq
        /\ \A i \in 1..(j - 1) : normalizePathName(pathAttachments[i].path) # nq

\* The pod the claim gives a not-allowed path.
ExpectedPod(q) ==
    IF \E j \in 1..Len(pathAttachments) : FirstMatch(j, q)
    THEN pathAttachments[CHOOSE j \in 1..Len(pathAttachments) : FirstMatch(j, q)].pod
    ELSE <<"p", "o", "d", "-", "2">>

\* C9: the output is the header followed by one row 'vlan,epg,fullPath' per
\* not-allowed result, in result order; the row's pod is that of the first
\* attachment, whatever its vlan, whose normalized path equals the result's,
\* or 'pod-2' when there is none; and for results of validateVlanAllowances
\* over the same attachments such an attachment has another vlan than the
\* endpoint's.
C9_RowPerNotAllowedWithFirstMatchingPod ==
    Reported =>
        /\ csv = header \o NL
                    \o join([n \in 1..Len(NotAllowed) |->
                               vlanArg \o <<",">> \o epgArg \o <<",">>
                                   \o csvFullPath(ExpectedPod(NotAllowed[n]), NotAllowed[n])])
        /\ \A n \in 1..Len(NotAllowed) :
              LET pre == vlanArg \o <<",">> \o epgArg \o <<",">>
                             \o ExpectedPod(NotAllowed[n]) \o <<"/">>
              IN  /\ Len(rows[n]) >= Len(pre)
                  /\ SubSeq(rows[n], 1, Len(pre)) = pre
        /\ Len(rows) = Len(NotAllowed)
        /\ pc = "reported" =>
              \A n \in 1..Len(NotAllowed) : \A j \in 1..Len(pathAttachments) :
                  FirstMatch(j, NotAllowed[n]) => pathAttachments[j].vlan # endpointData.vlan

\* C9 witness: a result of validateVlanAllowances is not allowed, two
\* attachments with different pods match its path, and the report is written.
C9_Witness ==
    /\ pc = "reported"
    /\ Len(rows) >= 1
    /\ \E i, j \in 1..Len(pathAttachments) :
          /\ i < j
          /\ FirstMatch(i, NotAllowed[1])
          /\ normalizePathName(pathAttachments[j].path) = normalizePathName(NotAllowed[1])
          /\ pathAttachments[i].pod # pathAttachments[j].pod

(***************************************************************************)
(* Properties of parseMoqueryOutput (SpecMoquery).                         *)
(***************************************************************************)
\* pathName starts with <digits>-<digits>-VPC.
HasVpcPrefix(pathName) ==
    LET e1 == RunEnd(pathName, 1, "digit")
        e2 == RunEnd(pathName, e1 + 2, "digit")
    IN  /\ e1 >= 1
        /\ LitAt(pathName, e1 + 1, <<"-">>)
        /\ e2 >= e1 + 2
        /\ LitAt(pathName, e2 + 1, <<"-", "V", "P", "C">>)

\* pathName starts with <digits> followed by '-' or '/'.
HasNodePrefix(pathName) ==
    LET e == RunEnd(pathName, 1, "digit")
    IN  e >= 1 /\ e + 1 <= Len(pathName) /\ pathName[e + 1] \in {"-", "/"}

\* The fullPath the claim gives a record: chosen by the shape of pathName alone.
ShapeFullPath(pod, pathName) ==
    IF HasVpcPrefix(pathName)
    THEN LET e1 == RunEnd(pathName, 1, "digit")
             e2 == RunEnd(pathName, e1 + 2, "digit")
         IN  pod \o <<"/", "p", "r", "o", "t", "p", "a", "t", "h", "s", "-">>
                 \o SubSeq(pathName, 1, e1) \o <<"-">> \o SubSeq(pathName, e1 + 2, e2)
                 \o <<"/", "p", "a", "t", "h", "e", "p", "-", "[">> \o pathName \o <<"]">>
    ELSE IF HasNodePrefix(pathName)
    THEN pod \o <<"/", "p", "a", "t", "h", "s", "-">>
             \o SubSeq(pathName, 1, RunEnd(pathName, 1, "digit"))
             \o <<"/", "p", "a", "t", "h", "e", "p", "-", "[">> \o pathName \o <<"]">>
    ELSE <<>>

\* C8: for every record of parseMoqueryOutput, whichever dn pattern its line
\* matched, fullPath is chosen by the shape of pathName alone: the protpaths
\* form for a <digits>-<digits>-VPC prefix, else the paths form for leading
\* digits followed by '-' or '/', else empty.
C8_FullPathByPathNameShape ==
    pc # "start" =>
        \A k \in 1..Len(pathAttachments) :
            pathAttachments[k].fullPath
                = ShapeFullPath(pathAttachments[k].pod, pathAttachments[k].path)

\* C10: for every record a of parseMoqueryOutput with a non-empty fullPath, the
\* row generateCSV writes for a not-allowed result with path a.path and pod
\* a.pod carries a.fullPath.
C10_CsvFullPathEqualsMoqueryFullPath ==
    pc = "reported" =>
        \A n \in 1..Len(NotAllowed) : \A a \in Range(pathAttachments) :
            (/\ a.path = NotAllowed[n]
             /\ a.pod = ExpectedPod(NotAllowed[n])
             /\ a.fullPath # <<>>)
                => rows[n] = vlanArg \o <<",">> \o epgArg \o <<",">> \o a.fullPath

====
